---- MODULE Spec2Model ----
(***************************************************************************)
(* Model of the streamour media tools (src/tools).                         *)
(*                                                                         *)
(* Spec      : the HLS generator (generate-hls.py): main's scan, the       *)
(*             sequential / thread-pool batch loop, generate_hls step by   *)
(*             step, the ffmpeg child process and the filesystem it and    *)
(*             the supervisor share.                                       *)
(* SpecTools : the batch loops of the other four tools                     *)
(*             (convert-srt-to-vtt.py, generate-thumbnails.py,             *)
(*             fix-mobile-streaming.py, generate-subtitles.py).            *)
(* SpecBatch : generate-hls.py on several files in one run, with --skip.   *)
(* SpecCall  : one call of generate_hls on a directory in any state.       *)
(* SpecSuite : any one of the five tools, run once.                        *)
(* SpecPaths : the output path each tool derives from a source name.       *)
(* SpecSrt   : convert_srt_to_vtt on the text of one file.                 *)
(*                                                                         *)
(* Time is counted in ticks.  One tick stands for one polling interval of  *)
(* the supervisor; a minute is TicksPerMinute ticks.                       *)
(***************************************************************************)
EXTENDS Integers, Sequences, FiniteSets, TLC

\* ---------------------------------------------------------------- bounds
NumFiles == 2          \* most MKV files find_mkv_files returns
MaxTime == 4           \* the clock stops advancing here
MaxRuns == 2           \* invocations of main, one after the other
TicksPerMinute == 2    \* scale of the clock
PollTicks == 1         \* one polling interval
StallTicks == 1        \* the stall timeout S of the specification, in ticks
PipeCap == 1           \* progress lines the stdout pipe holds unread
ErrPipeCap == 1        \* log lines the stderr pipe holds unread

Items == 1..NumFiles

VARIABLES
    \* command line and environment of one run of generate-hls.py
    relPath,       \* per file: mkv.relative_to(media_dir) as a string of characters
    skip,          \* args.skip: the list of --skip patterns
    force, parallel, dry_run, timeout_minutes, ffmpegInstalled,
    nFiles,        \* len(mkv_files): the MKV files are 1..nFiles in sorted order
    \* filesystem, per MKV file
    pathKind,      \* "ok" | "toolong" (name + ".hls" exceeds NAME_MAX) | "isfile" (<name>.hls is a regular file)
    srcMtime,      \* st_mtime of the MKV
    dirExists,     \* <name>.hls/ exists as a directory
    segs,          \* segmentNNN.ts files are present in it
    playlist,      \* playlist.m3u8: "none" | "partial" | "complete" (has #EXT-X-ENDLIST)
    plMtime,       \* st_mtime of playlist.m3u8
    now,           \* time.time()
    \* main()
    mpc, scanIdx, status, to_process, success_count, fail_count, exitCode, run,
    \* one generate_hls call per item
    pc, result, proc, outBuf, errBuf, start_time, lastOutput, timed_out, counted, calls, launches,
    \* history
    prevGenerated, \* the preceding run returned a generated-success result for the item and
                   \* its source has not been modified since the encoder completed the playlist
    touched,       \* the source was modified after the encoder last completed the playlist
    \* the other tools (SpecTools)
    tool, tDep, tpc, tIdx, tOutcome, tAttempts, successful, failed, tExit, tOut,
    tStale,        \* the source of item i was modified after its output artifact was written
    tAnswer,       \* what the operator typed at the confirmation prompt
    mVideo,        \* fix-mobile-streaming.py: content of the file at video_path
    mTemp,         \* ... the file at <stem>.tmp.mp4
    mRun,          \* ... how subprocess.run(ffmpeg) ended for the item
    mAlias,        \* ... 0, or the item whose video_path is the temporary path of the item before it
    \* output naming of the five tools (SpecPaths)
    pTool, srcA, srcB, ppc, selA, selB, outA, outB,
    \* convert_srt_to_vtt on one file (SpecSrt)
    srt_content,   \* the text read from the .srt file, as its lines
    vtt_content,   \* the text written to the .vtt file, as its lines
    spc            \* "off", "read" (before the conversion) or "written"

cfgVars == <<force, parallel, dry_run, timeout_minutes, ffmpegInstalled, nFiles, relPath, skip>>
fsVars == <<pathKind, srcMtime, dirExists, segs, playlist, plMtime>>
mainVars == <<mpc, scanIdx, status, to_process, success_count, fail_count, exitCode, run>>
callVars == <<pc, result, proc, outBuf, errBuf, start_time, lastOutput, timed_out, counted, calls, launches>>
histVars == <<prevGenerated, touched>>
toolVars == <<tool, tDep, tpc, tIdx, tOutcome, tAttempts, successful, failed, tExit, tOut,
              tStale, tAnswer, mVideo, mTemp, mRun, mAlias>>
pathVars == <<pTool, srcA, srcB, ppc, selA, selB, outA, outB>>
srtVars == <<srt_content, vtt_content, spc>>
auxVars == <<pathVars, srtVars>>
hlsVars == <<cfgVars, fsVars, now, mainVars, callVars, histVars>>
vars == <<hlsVars, toolVars, auxVars>>

\* ------------------------------------------------------- generate-hls.py
Range(s) == {s[k] : k \in 1..Len(s)}
InBatch(i) == i \in Range(to_process)
Active(i) == pc[i] \in {"mkdir", "popen", "read", "wait"}
Success(r) == r \in {"skipped", "generated"}
Failure(r) == r \in {"ffmpeg_error", "timeout", "error"}

\* is_hls_complete with the freshness comparison of line 88 turned into >=.
is_hls_complete_ge(i) ==
    IF pathKind[i] = "toolong" THEN "raise"
    ELSE IF playlist[i] = "none" THEN "false"
    ELSE IF playlist[i] # "complete" THEN "false"
    ELSE IF srcMtime[i] >= plMtime[i] THEN "false"
    ELSE "true"

\* is_hls_complete(hls_dir, mkv_path): "true" / "false", or "raise" when the
\* existence test of line 78, which is outside the try block, fails with an
\* OSError that Path.exists() does not swallow (ENAMETOOLONG).
is_hls_complete(i) ==
    IF pathKind[i] = "toolong" THEN "raise"
    ELSE IF playlist[i] = "none" THEN "false"
    ELSE IF playlist[i] # "complete" THEN "false"
    ELSE IF srcMtime[i] > plMtime[i] THEN "false"
    ELSE "true"

timeout_seconds == IF timeout_minutes > 0 THEN timeout_minutes * TicksPerMinute ELSE 0

ToolsIdle ==
    /\ tool = "none" /\ tDep = TRUE /\ tpc = "off" /\ tIdx = 0
    /\ tOutcome = [i \in Items |-> "none"]
    /\ tAttempts = [i \in Items |-> 0]
    /\ successful = 0 /\ failed = 0 /\ tExit = -1
    /\ tOut = [i \in Items |-> FALSE]
    /\ tStale = [i \in Items |-> FALSE]
    /\ tAnswer = "unasked"
    /\ mVideo = [i \in Items |-> "orig"]
    /\ mTemp = [i \in Items |-> "none"]
    /\ mRun = [i \in Items |-> "idle"]
    /\ mAlias = 0

\* The output-naming inputs, not in use.
PathsIdle ==
    /\ pTool = "none" /\ srcA = <<>> /\ srcB = <<>> /\ ppc = "off"
    /\ selA = FALSE /\ selB = FALSE /\ outA = <<>> /\ outB = <<>>

\* The converter of one file, not in use.
SrtIdle == srt_content = <<>> /\ vtt_content = <<>> /\ spc = "off"

AuxIdle == PathsIdle /\ SrtIdle

FreshRun ==
    /\ mpc = "scan" /\ scanIdx = 1
    /\ status = [i \in Items |-> "unscanned"]
    /\ to_process = <<>>
    /\ success_count = 0 /\ fail_count = 0 /\ exitCode = -1
    /\ pc = [i \in Items |-> "queued"]
    /\ result = [i \in Items |-> "none"]
    /\ proc = [i \in Items |-> "none"]
    /\ outBuf = [i \in Items |-> 0]
    /\ errBuf = [i \in Items |-> 0]
    /\ start_time = [i \in Items |-> 0]
    /\ lastOutput = [i \in Items |-> 0]
    /\ timed_out = [i \in Items |-> FALSE]
    /\ counted = [i \in Items |-> "none"]
    /\ calls = [i \in Items |-> 0]
    /\ launches = [i \in Items |-> 0]

\* No --skip option (the default, an empty list).
NoSkip ==
    /\ relPath = [i \in Items |-> <<"x", "e">>]
    /\ skip = <<>>

HlsInit(counts, timeouts) ==
    /\ force \in BOOLEAN
    /\ parallel \in {1, 2}
    /\ dry_run \in BOOLEAN
    /\ timeout_minutes \in timeouts
    /\ ffmpegInstalled \in BOOLEAN
    /\ nFiles \in counts
    /\ pathKind \in [Items -> {"ok", "toolong", "isfile"}]
    /\ playlist \in [Items -> {"none", "complete"}]
    /\ \A i \in Items : playlist[i] = "complete" => pathKind[i] = "ok"
    /\ \A i \in Items : i > nFiles => (pathKind[i] = "ok" /\ playlist[i] = "none")
    /\ dirExists = [i \in Items |-> playlist[i] = "complete"]
    /\ segs = [i \in Items |-> playlist[i] = "complete"]
    /\ srcMtime = [i \in Items |-> 0]
    /\ plMtime = [i \in Items |-> 0]
    /\ now = 0
    /\ run = 1
    /\ FreshRun
    /\ prevGenerated = [i \in Items |-> FALSE]
    /\ touched = [i \in Items |-> FALSE]

\* One MKV file, with the clock, source modifications and repeated runs.
Init == HlsInit({1}, {0, 1}) /\ NoSkip /\ ToolsIdle /\ AuxIdle

\* The relative paths "mEx" and "xe", and the --skip lists: none, or the
\* patterns "z" and "eX".
RelPaths == {<<"m", "E", "x">>, <<"x", "e">>}
SkipLists == {<<>>, << <<"z">>, <<"e", "X">> >>}

\* Up to NumFiles MKV files in one run, without the passage of time.
BatchInit ==
    /\ HlsInit(0..NumFiles, {0})
    /\ relPath \in [Items -> RelPaths]
    /\ \A i \in Items : i > nFiles => relPath[i] = <<"x", "e">>
    /\ skip \in SkipLists
    /\ ToolsIdle /\ AuxIdle

\* str.lower() on a string of the characters in use.
str_lower(w) ==
    [k \in 1..Len(w) |-> CASE w[k] = "E" -> "e" [] w[k] = "X" -> "x" [] OTHER -> w[k]]

\* Python's `p in w` on strings.
Contains(p, w) == \E k \in 0..(Len(w) - Len(p)) : SubSeq(w, k + 1, k + Len(p)) = p

\* main, lines 352-357: the file matches one of the --skip patterns.
skip_file(i) ==
    \E n \in 1..Len(skip) : Contains(str_lower(skip[n]), str_lower(relPath[i]))

\* ScanItem with --force taking precedence over the skip list.
ScanItem_forceFirst ==
    /\ mpc = "scan" /\ scanIdx <= nFiles
    /\ LET i == scanIdx
           st == IF force THEN "PENDING"
                 ELSE IF skip_file(i) THEN "SKIP"
                 ELSE IF is_hls_complete(i) = "true" THEN "DONE"
                 ELSE "PENDING"
           raises == (~skip_file(i)) /\ (~force) /\ is_hls_complete(i) = "raise"
       IN  IF raises
           THEN /\ mpc' = "exited" /\ exitCode' = 1
                /\ UNCHANGED <<scanIdx, status, to_process>>
           ELSE /\ status' = [status EXCEPT ![i] = st]
                /\ to_process' = IF st = "PENDING" THEN Append(to_process, i) ELSE to_process
                /\ scanIdx' = scanIdx + 1
                /\ UNCHANGED <<mpc, exitCode>>
    /\ UNCHANGED <<cfgVars, fsVars, now, success_count, fail_count, run, callVars, histVars, toolVars, auxVars>>

\* main, lines 348-371: one iteration of the status loop.  The skip list is
\* consulted first; only then, with force unset, is_hls_complete is evaluated
\* (line 362); an exception it raises is not caught anywhere in main and ends
\* the process with a traceback (status 1).
ScanItem ==
    /\ mpc = "scan" /\ scanIdx <= nFiles
    /\ LET i == scanIdx
           st == IF skip_file(i) THEN "SKIP"
                 ELSE IF (~force) /\ is_hls_complete(i) = "true" THEN "DONE"
                 ELSE "PENDING"
           raises == (~skip_file(i)) /\ (~force) /\ is_hls_complete(i) = "raise"
       IN  IF raises
           THEN /\ mpc' = "exited" /\ exitCode' = 1
                /\ UNCHANGED <<scanIdx, status, to_process>>
           ELSE /\ status' = [status EXCEPT ![i] = st]
                /\ to_process' = IF st = "PENDING" THEN Append(to_process, i) ELSE to_process
                /\ scanIdx' = scanIdx + 1
                /\ UNCHANGED <<mpc, exitCode>>
    /\ UNCHANGED <<cfgVars, fsVars, now, success_count, fail_count, run, callVars, histVars, toolVars, auxVars>>

\* main, lines 375-394: nothing to do / dry run / start of the batch.
AfterScan ==
    /\ mpc = "scan" /\ scanIdx = nFiles + 1
    /\ IF to_process = <<>> \/ dry_run
       THEN mpc' = "exited" /\ exitCode' = 0
       ELSE mpc' = "running" /\ exitCode' = exitCode
    /\ UNCHANGED <<cfgVars, fsVars, now, scanIdx, status, to_process, success_count, fail_count, run,
                   callVars, histVars, toolVars, auxVars>>

\* CanStart without waiting for the previous call in the sequential loop.
CanStart_noWait(i) ==
    /\ InBatch(i) /\ pc[i] = "queued"
    /\ \A j \in Items : (InBatch(j) /\ j < i) => pc[j] # "queued"
    /\ mpc \in {"running", "crashing"}

\* The next call of generate_hls may begin: the sequential loop (lines 420-428)
\* calls it for the next item once the previous outcome is counted; the pool
\* (lines 401-405) runs the submitted calls in submission order on at most
\* `parallel` worker threads, and keeps running queued calls while the with
\* block unwinds after an exception (shutdown(wait=True)).
CanStart(i) ==
    /\ InBatch(i) /\ pc[i] = "queued"
    /\ \A j \in Items : (InBatch(j) /\ j < i) => pc[j] # "queued"
    /\ IF parallel > 1
       THEN /\ mpc \in {"running", "crashing"}
            /\ Cardinality({j \in Items : Active(j)}) < parallel
       ELSE /\ mpc = "running"
            /\ \A j \in Items : (InBatch(j) /\ j < i) => counted[j] # "none"

\* generate_hls, lines 113-119: entry and the already-done check.
GhEnter(i) ==
    /\ CanStart(i)
    /\ calls' = [calls EXCEPT ![i] = @ + 1]
    /\ LET c == IF force THEN "false" ELSE is_hls_complete(i)
       IN  IF c = "true"
           THEN pc' = [pc EXCEPT ![i] = "returned"] /\ result' = [result EXCEPT ![i] = "skipped"]
           ELSE IF c = "raise"
           THEN pc' = [pc EXCEPT ![i] = "returned"] /\ result' = [result EXCEPT ![i] = "raised"]
           ELSE pc' = [pc EXCEPT ![i] = "mkdir"] /\ result' = result
    /\ UNCHANGED <<cfgVars, fsVars, now, mainVars, proc, outBuf, errBuf, start_time, lastOutput, timed_out,
                   counted, launches, histVars, toolVars, auxVars>>

\* generate_hls, lines 121-132: hls_dir.mkdir(parents=True, exist_ok=True) is
\* outside the try block; the codec and duration probes catch their own errors.
GhMkdir(i) ==
    /\ pc[i] = "mkdir"
    /\ IF pathKind[i] = "ok"
       THEN /\ dirExists' = [dirExists EXCEPT ![i] = TRUE]
            /\ pc' = [pc EXCEPT ![i] = "popen"]
            /\ result' = result
       ELSE /\ pc' = [pc EXCEPT ![i] = "returned"]
            /\ result' = [result EXCEPT ![i] = "raised"]
            /\ dirExists' = dirExists
    /\ UNCHANGED <<cfgVars, pathKind, srcMtime, segs, playlist, plMtime, now, mainVars, proc, outBuf, errBuf,
                   start_time, lastOutput, timed_out, counted, calls, launches, histVars, toolVars, auxVars>>

\* generate_hls, lines 172-185 and 266-268: subprocess.Popen; FileNotFoundError
\* when ffmpeg is not installed is caught by the except clause, which returns
\* (False, "Error: ...") and removes nothing.
GhPopen(i) ==
    /\ pc[i] = "popen"
    /\ IF ffmpegInstalled
       THEN /\ proc' = [proc EXCEPT ![i] = "running"]
            /\ start_time' = [start_time EXCEPT ![i] = now]
            /\ lastOutput' = [lastOutput EXCEPT ![i] = now]
            /\ launches' = [launches EXCEPT ![i] = @ + 1]
            /\ pc' = [pc EXCEPT ![i] = "read"]
            /\ result' = result
       ELSE /\ pc' = [pc EXCEPT ![i] = "returned"]
            /\ result' = [result EXCEPT ![i] = "error"]
            /\ UNCHANGED <<proc, start_time, lastOutput, launches>>
    /\ UNCHANGED <<cfgVars, fsVars, now, mainVars, outBuf, errBuf, timed_out, counted, calls, histVars, toolVars, auxVars>>

\* The process has not exited: it runs, or it is suspended in a write to the
\* full stderr pipe.
Alive(i) == proc[i] \in {"running", "blocked"}

\* generate_hls, lines 188-230: process.stdout.readline() blocks until a line
\* is there or the pipe is at end of file; the loop is left only when the read
\* is empty and process.poll() is not None.  Nothing here reads stderr.
GhReadline(i) ==
    /\ pc[i] = "read"
    /\ IF outBuf[i] > 0
       THEN outBuf' = [outBuf EXCEPT ![i] = @ - 1] /\ pc' = pc
       ELSE /\ ~Alive(i)
            /\ pc' = [pc EXCEPT ![i] = "wait"] /\ outBuf' = outBuf
    /\ UNCHANGED <<cfgVars, fsVars, now, mainVars, result, proc, errBuf, start_time, lastOutput, timed_out,
                   counted, calls, launches, histVars, toolVars, auxVars>>

\* GhWait reporting success whatever the exit status of the process.
GhWait_anyStatus(i) ==
    /\ pc[i] = "wait"
    /\ ~Alive(i)
    /\ pc' = [pc EXCEPT ![i] = "returned"]
    /\ result' = [result EXCEPT ![i] = "generated"]
    /\ UNCHANGED <<cfgVars, fsVars, now, mainVars, proc, timed_out, outBuf, errBuf, start_time, lastOutput,
                   counted, calls, launches, histVars, toolVars, auxVars>>

\* generate_hls, lines 232-264: the polling loop (one iteration per step while
\* the process runs), then the classification of the outcome (reading what
\* is left in stderr, line 250) and the cleanup.
GhWait(i) ==
    /\ pc[i] = "wait"
    /\ IF Alive(i)
       THEN /\ IF timeout_minutes > 0 /\ now - start_time[i] > timeout_seconds
               THEN /\ proc' = [proc EXCEPT ![i] = "killed"]
                    /\ timed_out' = [timed_out EXCEPT ![i] = TRUE]
               ELSE UNCHANGED <<proc, timed_out>>
            /\ UNCHANGED <<pc, result, dirExists, segs, playlist>>
       ELSE /\ pc' = [pc EXCEPT ![i] = "returned"]
            /\ IF timed_out[i] \/ proc[i] # "exited0"
               THEN /\ segs' = [segs EXCEPT ![i] = FALSE]
                    /\ playlist' = [playlist EXCEPT ![i] = "none"]
                    /\ dirExists' = [dirExists EXCEPT ![i] = FALSE]
                    /\ result' = [result EXCEPT ![i] = IF timed_out[i] THEN "timeout" ELSE "ffmpeg_error"]
               ELSE /\ result' = [result EXCEPT ![i] = "generated"]
                    /\ UNCHANGED <<dirExists, segs, playlist>>
            /\ UNCHANGED <<proc, timed_out>>
    /\ errBuf' = IF (~Alive(i)) /\ (~timed_out[i]) /\ proc[i] # "exited0"
                 THEN [errBuf EXCEPT ![i] = 0]
                 ELSE errBuf
    /\ UNCHANGED <<cfgVars, pathKind, srcMtime, plMtime, now, mainVars, outBuf, start_time, lastOutput,
                   counted, calls, launches, histVars, toolVars, auxVars>>

\* main, lines 407-417 (future.result() of a completed future) and 421-426:
\* the outcome of a returned call is counted; an exception raised by the call
\* propagates out of the loop.
Collect(i) ==
    /\ mpc = "running" /\ InBatch(i) /\ pc[i] = "returned" /\ counted[i] = "none"
    /\ IF result[i] = "raised"
       THEN /\ mpc' = IF parallel > 1 THEN "crashing" ELSE "exited"
            /\ exitCode' = IF parallel > 1 THEN exitCode ELSE 1
            /\ UNCHANGED <<counted, success_count, fail_count>>
       ELSE /\ counted' = [counted EXCEPT ![i] = IF Success(result[i]) THEN "ok" ELSE "fail"]
            /\ success_count' = IF Success(result[i]) THEN success_count + 1 ELSE success_count
            /\ fail_count' = IF Success(result[i]) THEN fail_count ELSE fail_count + 1
            /\ UNCHANGED <<mpc, exitCode>>
    /\ UNCHANGED <<cfgVars, fsVars, now, scanIdx, status, to_process, run, pc, result, proc, outBuf, errBuf,
                   start_time, lastOutput, timed_out, calls, launches, histVars, toolVars, auxVars>>

\* main, lines 430-434, and the end of the with block after an exception.
MainFinish ==
    /\ \/ /\ mpc = "running"
          /\ \A i \in Items : InBatch(i) => counted[i] # "none"
          /\ exitCode' = IF fail_count = 0 THEN 0 ELSE 1
       \/ /\ mpc = "crashing"
          /\ \A i \in Items : InBatch(i) => pc[i] = "returned"
          /\ exitCode' = 1
    /\ mpc' = "exited"
    /\ UNCHANGED <<cfgVars, fsVars, now, scanIdx, status, to_process, success_count, fail_count, run,
                   callVars, histVars, toolVars, auxVars>>

\* The operator starts generate-hls.py again (force may differ).
Rerun ==
    /\ mpc = "exited" /\ run < MaxRuns
    /\ run' = run + 1
    /\ force' \in BOOLEAN
    /\ prevGenerated' = [i \in Items |-> result[i] = "generated" /\ ~touched[i]]
    /\ mpc' = "scan" /\ scanIdx' = 1
    /\ status' = [i \in Items |-> "unscanned"]
    /\ to_process' = <<>>
    /\ success_count' = 0 /\ fail_count' = 0 /\ exitCode' = -1
    /\ pc' = [i \in Items |-> "queued"]
    /\ result' = [i \in Items |-> "none"]
    /\ proc' = [i \in Items |-> "none"]
    /\ outBuf' = [i \in Items |-> 0]
    /\ errBuf' = [i \in Items |-> 0]
    /\ start_time' = [i \in Items |-> 0]
    /\ lastOutput' = [i \in Items |-> 0]
    /\ timed_out' = [i \in Items |-> FALSE]
    /\ counted' = [i \in Items |-> "none"]
    /\ calls' = [i \in Items |-> 0]
    /\ launches' = [i \in Items |-> 0]
    /\ UNCHANGED <<parallel, dry_run, timeout_minutes, ffmpegInstalled, nFiles, relPath, skip, fsVars, now,
                   touched, toolVars, auxVars>>

\* ffmpeg (-f hls -hls_list_size 0 -progress pipe:1): a segment is written, the
\* playlist is rewritten without the end marker and a progress block goes to
\* stdout; the write blocks while the pipe is full.
ProcProgress(i) ==
    /\ proc[i] = "running" /\ outBuf[i] < PipeCap
    /\ outBuf' = [outBuf EXCEPT ![i] = @ + 1]
    /\ lastOutput' = [lastOutput EXCEPT ![i] = now]
    /\ segs' = [segs EXCEPT ![i] = TRUE]
    /\ playlist' = [playlist EXCEPT ![i] = "partial"]
    /\ plMtime' = [plMtime EXCEPT ![i] = now]
    /\ UNCHANGED <<cfgVars, pathKind, srcMtime, dirExists, now, mainVars, pc, result, proc, errBuf,
                   start_time, timed_out, counted, calls, launches, histVars, toolVars, auxVars>>

\* ffmpeg (-loglevel info, stderr=subprocess.PIPE): a log or statistics line
\* goes to stderr; when the pipe is full the write suspends the process until
\* somebody reads the pipe.  The only read of stderr is line 250, after the
\* process has exited.
ProcLog(i) ==
    /\ proc[i] = "running"
    /\ IF errBuf[i] < ErrPipeCap
       THEN errBuf' = [errBuf EXCEPT ![i] = @ + 1] /\ proc' = proc
       ELSE proc' = [proc EXCEPT ![i] = "blocked"] /\ errBuf' = errBuf
    /\ UNCHANGED <<cfgVars, fsVars, now, mainVars, pc, result, outBuf, start_time, lastOutput,
                   timed_out, counted, calls, launches, histVars, toolVars, auxVars>>

\* ffmpeg exits: with status 0 after writing the playlist with #EXT-X-ENDLIST,
\* or with a non-zero status leaving what it wrote so far.
ProcExit(i) ==
    /\ proc[i] = "running"
    /\ \E rc \in {0, 1} :
        /\ proc' = [proc EXCEPT ![i] = IF rc = 0 THEN "exited0" ELSE "exited1"]
        /\ IF rc = 0
           THEN /\ playlist' = [playlist EXCEPT ![i] = "complete"]
                /\ plMtime' = [plMtime EXCEPT ![i] = now]
                /\ segs' = [segs EXCEPT ![i] = TRUE]
                /\ touched' = [touched EXCEPT ![i] = FALSE]
           ELSE UNCHANGED <<playlist, plMtime, segs, touched>>
    /\ UNCHANGED <<cfgVars, pathKind, srcMtime, dirExists, now, mainVars, pc, result, outBuf, errBuf, start_time,
                   lastOutput, timed_out, counted, calls, launches, prevGenerated, toolVars, auxVars>>

\* Time passes.
Tick ==
    /\ now < MaxTime
    /\ now' = now + 1
    /\ UNCHANGED <<cfgVars, fsVars, mainVars, callVars, histVars, toolVars, auxVars>>

\* The source file is modified (its st_mtime becomes the current time).
Touch(i) ==
    /\ i <= nFiles /\ srcMtime[i] < now
    /\ srcMtime' = [srcMtime EXCEPT ![i] = now]
    /\ touched' = [touched EXCEPT ![i] = TRUE]
    /\ prevGenerated' = [prevGenerated EXCEPT ![i] = FALSE]
    /\ UNCHANGED <<cfgVars, pathKind, dirExists, segs, playlist, plMtime, now, mainVars, callVars,
                   toolVars, auxVars>>

BatchNext ==
    \/ ScanItem
    \/ AfterScan
    \/ \E i \in Items : GhEnter(i)
    \/ \E i \in Items : GhMkdir(i)
    \/ \E i \in Items : GhPopen(i)
    \/ \E i \in Items : GhReadline(i)
    \/ \E i \in Items : GhWait(i)
    \/ \E i \in Items : Collect(i)
    \/ MainFinish
    \/ \E i \in Items : ProcProgress(i)
    \/ \E i \in Items : ProcExit(i)
    \/ \E i \in Items : ProcLog(i)

SpecBatch == BatchInit /\ [][BatchNext]_vars

Next ==
    \/ ScanItem
    \/ AfterScan
    \/ \E i \in Items : GhEnter(i)
    \/ \E i \in Items : GhMkdir(i)
    \/ \E i \in Items : GhPopen(i)
    \/ \E i \in Items : GhReadline(i)
    \/ \E i \in Items : GhWait(i)
    \/ \E i \in Items : Collect(i)
    \/ MainFinish
    \/ Rerun
    \/ \E i \in Items : ProcProgress(i)
    \/ \E i \in Items : ProcExit(i)
    \/ \E i \in Items : ProcLog(i)
    \/ Tick
    \/ \E i \in Items : Touch(i)

Spec == Init /\ [][Next]_vars

TypeOK ==
    /\ now \in 0..MaxTime
    /\ mpc \in {"scan", "running", "crashing", "exited"}
    /\ \A i \in Items : pc[i] \in {"queued", "mkdir", "popen", "read", "wait", "returned"}

\* generate_hls called for one file whose output directory is in any state
\* (the directory can change between the scan of main and the call).
CallInit ==
    /\ force \in BOOLEAN /\ parallel = 1 /\ dry_run = FALSE /\ timeout_minutes = 0
    /\ ffmpegInstalled \in BOOLEAN /\ nFiles = 1
    /\ NoSkip
    /\ pathKind \in [Items -> {"ok", "toolong", "isfile"}]
    /\ playlist \in [Items -> {"none", "partial", "complete"}]
    /\ srcMtime \in [Items -> {0, 1}]
    /\ \A i \in Items : playlist[i] # "none" => pathKind[i] = "ok"
    /\ \A i \in Items : i > nFiles => (pathKind[i] = "ok" /\ playlist[i] = "none" /\ srcMtime[i] = 0)
    /\ dirExists = [i \in Items |-> playlist[i] # "none"]
    /\ segs = [i \in Items |-> playlist[i] # "none"]
    /\ plMtime = [i \in Items |-> 0]
    /\ now = 1 /\ run = 1
    /\ mpc = "running" /\ scanIdx = 2
    /\ status = [i \in Items |-> IF i = 1 THEN "PENDING" ELSE "unscanned"]
    /\ to_process = <<1>>
    /\ success_count = 0 /\ fail_count = 0 /\ exitCode = -1
    /\ pc = [i \in Items |-> "queued"]
    /\ result = [i \in Items |-> "none"]
    /\ proc = [i \in Items |-> "none"]
    /\ outBuf = [i \in Items |-> 0]
    /\ errBuf = [i \in Items |-> 0]
    /\ start_time = [i \in Items |-> 0]
    /\ lastOutput = [i \in Items |-> 0]
    /\ timed_out = [i \in Items |-> FALSE]
    /\ counted = [i \in Items |-> "none"]
    /\ calls = [i \in Items |-> 0]
    /\ launches = [i \in Items |-> 0]
    /\ prevGenerated = [i \in Items |-> FALSE]
    /\ touched = [i \in Items |-> FALSE]
    /\ ToolsIdle /\ AuxIdle

CallNext ==
    \/ \E i \in Items : GhEnter(i)
    \/ \E i \in Items : GhMkdir(i)
    \/ \E i \in Items : GhPopen(i)
    \/ \E i \in Items : GhReadline(i)
    \/ \E i \in Items : GhWait(i)
    \/ \E i \in Items : ProcProgress(i)
    \/ \E i \in Items : ProcExit(i)
    \/ \E i \in Items : ProcLog(i)

SpecCall == CallInit /\ [][CallNext]_vars

\* ------------------------------------- the other tools: shared batch shape
\* convert-srt-to-vtt.py ("srt"), generate-thumbnails.py ("thumb"),
\* fix-mobile-streaming.py ("moov"), generate-subtitles.py ("subs").
\* tOut[i]: the output artifact of source i is in place (<stem>.vtt,
\* <stem>.jpg, or for "moov" the moov atom already at the start).
Tools == {"srt", "thumb", "moov", "subs"}

HlsIdle ==
    /\ force = FALSE /\ parallel = 1 /\ dry_run = FALSE /\ timeout_minutes = 0
    /\ ffmpegInstalled = TRUE /\ nFiles = 0
    /\ NoSkip
    /\ pathKind = [i \in Items |-> "ok"]
    /\ playlist = [i \in Items |-> "none"]
    /\ dirExists = [i \in Items |-> FALSE]
    /\ segs = [i \in Items |-> FALSE]
    /\ srcMtime = [i \in Items |-> 0]
    /\ plMtime = [i \in Items |-> 0]
    /\ now = 0 /\ run = 1
    /\ FreshRun
    /\ prevGenerated = [i \in Items |-> FALSE]
    /\ touched = [i \in Items |-> FALSE]

\* ------------------------------------------------ output naming (all tools)
\* A file name is the sequence of its dot-separated pieces, the last one being
\* the suffix: <<"a", ".mkv">> is a.mkv.  The two names lie in one directory.
Bases == {"a", "b"}
Suffixes == {".mkv", ".MKV", ".mp4", ".srt", ".SRT"}
FileNames == {<<b, x>> : b \in Bases, x \in Suffixes}

\* str.lower() on a suffix.
Lower(x) == CASE x = ".MKV" -> ".mkv" [] x = ".SRT" -> ".srt" [] OTHER -> x

\* Path.stem: the name without its last suffix.
Stem(n) == SubSeq(n, 1, Len(n) - 1)

\* Which names the scan of a tool picks up: rglob('*.mkv') (generate-hls.py:273),
\* file.lower().endswith('.srt') (convert-srt-to-vtt.py:100),
\* file.lower().endswith('.mp4') (fix-mobile-streaming.py:134),
\* any(file.lower().endswith(ext) ...) over .mp4/.mkv/.avi/.mov
\* (generate-thumbnails.py:89-94, generate-subtitles.py:37-42).
Selected(t, n) ==
    CASE t = "hls" -> n[Len(n)] = ".mkv"
      [] t = "srt" -> Lower(n[Len(n)]) = ".srt"
      [] t = "moov" -> Lower(n[Len(n)]) = ".mp4"
      [] OTHER -> Lower(n[Len(n)]) \in {".mp4", ".mkv", ".avi", ".mov"}

\* The output artifact of a source: Path(str(mkv_path) + '.hls')
\* (generate-hls.py:113), parent / f"{stem}.vtt" (convert-srt-to-vtt.py:26,
\* generate-subtitles.py:69), parent / f"{stem}.jpg" (generate-thumbnails.py:46).
OutputPath(t, n) ==
    CASE t = "hls" -> Append(n, ".hls")
      [] t = "thumb" -> Append(Stem(n), ".jpg")
      [] OTHER -> Append(Stem(n), ".vtt")

\* The temporary file of the moov fixer: video_path.parent /
\* f"{video_path.stem}.tmp.mp4" (fix-mobile-streaming.py:89).
TempPath(n) == Stem(n) \o <<".tmp", ".mp4">>

ToolsInit ==
    /\ HlsIdle /\ AuxIdle
    /\ tool \in Tools
    /\ tDep \in BOOLEAN
    /\ tool = "srt" => tDep
    /\ tOut \in [Items -> BOOLEAN]
    /\ tStale \in [Items -> BOOLEAN]
    /\ \A i \in Items : tStale[i] => (tOut[i] /\ tool # "moov")
    /\ mAlias \in {k \in 0..NumFiles : k # 0 =>
                        /\ k > 1 /\ tool = "moov"
                        /\ \E n \in FileNames : Selected("moov", n) /\ Selected("moov", TempPath(n))}
    /\ mTemp \in [Items -> {"none", "other"}]
    /\ \A i \in Items : mTemp[i] = "other" => (tool = "moov" /\ ~tOut[i])
    /\ \A i \in Items : i + 1 = mAlias => mTemp[i] = "other"
    /\ mVideo = [i \in Items |-> "orig"]
    /\ mRun = [i \in Items |-> "idle"]
    /\ tAnswer = "unasked"
    /\ tpc = "deps" /\ tIdx = 0
    /\ tOutcome = [i \in Items |-> "none"]
    /\ tAttempts = [i \in Items |-> 0]
    /\ successful = 0 /\ failed = 0 /\ tExit = -1

\* check_dependencies() and `if not check_dependencies(): sys.exit(1)`
\* (generate-thumbnails.py:108, fix-mobile-streaming.py:160,
\* generate-subtitles.py:116); convert-srt-to-vtt.py has no such check.
ToolCheckDeps ==
    /\ tpc = "deps"
    /\ IF tool # "srt" /\ ~tDep
       THEN tpc' = "exited" /\ tExit' = 1
       ELSE tpc' = "scan" /\ tExit' = tExit
    /\ UNCHANGED <<hlsVars, auxVars, mAlias, tool, tDep, tIdx, tOutcome, tAttempts, successful, failed, tOut,
                   tStale, tAnswer, mVideo, mTemp, mRun>>

\* find_srt_files / find_videos_without_thumbnails / find_videos_needing_fix /
\* find_video_files, and the `if not ...: return` that follows in main.  The
\* test is `not vtt_path.exists()` / `not thumbnail_path.exists()` (for the
\* moov fixer the position of the atom in the file itself): no modification
\* time is read.
ToolScan ==
    /\ tpc = "scan"
    /\ tOutcome' = [i \in Items |-> IF tOut[i] THEN "skip" ELSE "pending"]
    /\ IF \A i \in Items : tOut[i]
       THEN tpc' = "exited" /\ tExit' = 0
       ELSE tpc' = "confirm" /\ tExit' = tExit
    /\ UNCHANGED <<hlsVars, auxVars, mAlias, tool, tDep, tIdx, tAttempts, successful, failed, tOut,
                   tStale, tAnswer, mVideo, mTemp, mRun>>

\* str.lower() on the operator's answer.
LowerAnswer(r) == IF r = "Y" THEN "y" ELSE r

\* ToolConfirm treating the empty answer as consent.
ToolConfirm_defaultYes ==
    /\ tpc = "confirm"
    /\ \E r \in {"y", "Y", "n", ""} :
        /\ tAnswer' = r
        /\ IF LowerAnswer(r) # "n"
           THEN tpc' = "loop" /\ tExit' = tExit
           ELSE tpc' = "exited" /\ tExit' = 0
    /\ UNCHANGED <<hlsVars, auxVars, mAlias, tool, tDep, tIdx, tOutcome, tAttempts, successful, failed, tOut,
                   tStale, mVideo, mTemp, mRun>>

\* response = input("... [y/N] "); `if response.lower() != 'y'` cancels and
\* main returns.
ToolConfirm ==
    /\ tpc = "confirm"
    /\ \E r \in {"y", "Y", "n", ""} :
        /\ tAnswer' = r
        /\ IF LowerAnswer(r) = "y"
           THEN tpc' = "loop" /\ tExit' = tExit
           ELSE tpc' = "exited" /\ tExit' = 0
    /\ UNCHANGED <<hlsVars, auxVars, mAlias, tool, tDep, tIdx, tOutcome, tAttempts, successful, failed, tOut,
                   tStale, mVideo, mTemp, mRun>>

\* One iteration of the processing loop of the SRT converter, the thumbnail
\* generator and the subtitle generator: the per-item operation either
\* succeeds and leaves its output, or fails (returns None; in
\* generate-subtitles.py raises, which the loop's except clause swallows).
\* generate-subtitles.py keeps no counters.  The sources of one run are taken
\* to have pairwise different stems.
ToolItem ==
    /\ tpc = "loop" /\ tool # "moov"
    /\ \E i \in Items :
        /\ tOutcome[i] = "pending"
        /\ \A j \in Items : j < i => tOutcome[j] # "pending"
        /\ tIdx' = i
        /\ tAttempts' = [tAttempts EXCEPT ![i] = @ + 1]
        /\ \E ok \in BOOLEAN :
            /\ tOutcome' = [tOutcome EXCEPT ![i] = IF ok THEN "ok" ELSE "fail"]
            /\ tOut' = [tOut EXCEPT ![i] = ok]
            /\ successful' = IF ok /\ tool # "subs" THEN successful + 1 ELSE successful
            /\ failed' = IF ~ok /\ tool # "subs" THEN failed + 1 ELSE failed
    /\ UNCHANGED <<hlsVars, auxVars, mAlias, tool, tDep, tpc, tExit, tStale, tAnswer, mVideo, mTemp, mRun>>

\* fix_moov_position, lines 86-101: subprocess.run(ffmpeg -i video -c copy
\* -movflags +faststart -y temp).  It raises, or ffmpeg exits non-zero (having
\* written nothing or part of the temporary file), or ffmpeg exits with zero
\* and the temporary file is complete.
FixFfmpeg ==
    /\ tpc = "loop" /\ tool = "moov"
    /\ \E i \in Items :
        /\ tOutcome[i] = "pending" /\ mRun[i] = "idle"
        /\ \A j \in Items : j < i => tOutcome[j] # "pending"
        /\ tIdx' = i
        /\ tAttempts' = [tAttempts EXCEPT ![i] = @ + 1]
        /\ \E how \in {"raised", "ran1", "ran0"} :
            /\ mVideo[i] = "missing" => how # "ran0"
            /\ mRun' = [mRun EXCEPT ![i] = how]
            /\ \E t \in {mTemp[i], "partial", "full"} :
                /\ how = "raised" => t = mTemp[i]
                /\ how = "ran1" => t # "full"
                /\ how = "ran0" => t = "full"
                /\ mTemp' = [mTemp EXCEPT ![i] = t]
                /\ mVideo' = IF i + 1 = mAlias /\ t # mTemp[i]
                             THEN [mVideo EXCEPT ![i + 1] = "overwritten"]
                             ELSE mVideo
    /\ UNCHANGED <<hlsVars, auxVars, mAlias, tool, tDep, tpc, tExit, tOutcome, successful, failed, tOut,
                   tStale, tAnswer>>

\* fix_moov_position, lines 102-122, and the counting of lines 198-201: on a
\* non-zero status or an exception the temporary file is unlinked and False
\* returned; otherwise shutil.move renames the temporary file over video_path
\* (one atomic rename within the directory), which may itself fail.  Either
\* way nothing is left at temp_path: when that path is another item's video
\* (a.tmp.mp4 next to a.mp4), that video is gone.
FixFinish ==
    /\ tpc = "loop" /\ tool = "moov" /\ tIdx # 0
    /\ LET i == tIdx IN
        /\ tOutcome[i] = "pending" /\ mRun[i] # "idle"
        /\ \E moved \in BOOLEAN :
            LET gone == IF i + 1 = mAlias /\ mTemp[i] # "none"
                        THEN [mVideo EXCEPT ![i + 1] = "missing"]
                        ELSE mVideo
            IN  IF mRun[i] = "ran0" /\ moved
                THEN /\ mVideo' = [gone EXCEPT ![i] = "fixed"]
                     /\ mTemp' = [mTemp EXCEPT ![i] = "none"]
                     /\ tOutcome' = [tOutcome EXCEPT ![i] = "ok"]
                     /\ tOut' = [tOut EXCEPT ![i] = TRUE]
                     /\ successful' = successful + 1 /\ failed' = failed
                ELSE /\ mVideo' = gone
                     /\ mTemp' = [mTemp EXCEPT ![i] = "none"]
                     /\ tOutcome' = [tOutcome EXCEPT ![i] = "fail"]
                     /\ failed' = failed + 1
                     /\ UNCHANGED <<tOut, successful>>
    /\ UNCHANGED <<hlsVars, auxVars, mAlias, tool, tDep, tpc, tIdx, tExit, tAttempts, tStale, tAnswer, mRun>>

\* The summary is printed and main returns: the interpreter exits with 0.
ToolFinish ==
    /\ tpc = "loop"
    /\ \A i \in Items : tOutcome[i] # "pending"
    /\ tpc' = "exited" /\ tExit' = 0
    /\ UNCHANGED <<hlsVars, auxVars, mAlias, tool, tDep, tIdx, tOutcome, tAttempts, successful, failed, tOut,
                   tStale, tAnswer, mVideo, mTemp, mRun>>

ToolsNext ==
    \/ ToolCheckDeps
    \/ ToolScan
    \/ ToolConfirm
    \/ ToolItem
    \/ FixFfmpeg
    \/ FixFinish
    \/ ToolFinish

SpecTools == ToolsInit /\ [][ToolsNext]_vars

\* Any one of the five tools is run once.
SuiteInit == BatchInit \/ ToolsInit

SuiteNext == BatchNext \/ ToolsNext

SpecSuite == SuiteInit /\ [][SuiteNext]_vars

\* --------------------------------------------- output naming as one step
PathsInit ==
    /\ HlsIdle /\ ToolsIdle /\ SrtIdle
    /\ pTool \in {"hls", "srt", "thumb", "subs"}
    /\ srcA \in FileNames /\ srcB \in FileNames
    /\ ppc = "scan"
    /\ selA = FALSE /\ selB = FALSE /\ outA = <<>> /\ outB = <<>>

\* The scan selects the sources and each selected source gets its output path.
MapOutputs ==
    /\ ppc = "scan"
    /\ selA' = Selected(pTool, srcA) /\ selB' = Selected(pTool, srcB)
    /\ outA' = OutputPath(pTool, srcA) /\ outB' = OutputPath(pTool, srcB)
    /\ ppc' = "mapped"
    /\ UNCHANGED <<hlsVars, toolVars, srtVars, pTool, srcA, srcB>>

PathsNext == MapOutputs

SpecPaths == PathsInit /\ [][PathsNext]_vars

\* ------------------------------------------ convert_srt_to_vtt on one file
\* A text is the sequence of its lines and a line the sequence of its
\* pieces: "t" stands for any run of characters other than the three that
\* matter, which are the comma, the arrow "-->" and white space " ".
MaxLines == 5          \* most lines of the .srt file

SrtLines ==
    { <<>>, <<" ">>, <<"t">>, <<"t", ",", " ">>, <<",", "-->", ",">>, <<" ", "-->", ",", " ">> }

\* A line of white space only (\s* of the separator): a blank line.
IsBlank(l) == \A k \in 1..Len(l) : l[k] = " "

\* str.lstrip / str.rstrip on one line.
RECURSIVE lstrip(_)
lstrip(l) == IF l # <<>> /\ Head(l) = " " THEN lstrip(Tail(l)) ELSE l

RECURSIVE rstrip(_)
rstrip(l) == IF l # <<>> /\ l[Len(l)] = " " THEN rstrip(SubSeq(l, 1, Len(l) - 1)) ELSE l

\* re.split(r'\n\s*\n', srt_content.strip()) (line 45) and `if not
\* block.strip(): continue`: the runs of non-blank lines, in order.  cur is
\* the block being collected, acc the blocks already closed.
RECURSIVE split_blocks(_, _, _)
split_blocks(c, cur, acc) ==
    IF c = <<>>
    THEN IF cur = <<>> THEN acc ELSE Append(acc, cur)
    ELSE IF IsBlank(Head(c))
         THEN split_blocks(Tail(c), <<>>, IF cur = <<>> THEN acc ELSE Append(acc, cur))
         ELSE split_blocks(Tail(c), Append(cur, Head(c)), acc)

\* lines = block.strip().split('\n') (line 51): the block's lines with the
\* white space at the start of the first and at the end of the last removed.
block_lines(b) ==
    [k \in 1..Len(b) |->
        LET l1 == IF k = 1 THEN lstrip(b[k]) ELSE b[k]
        IN  IF k = Len(b) THEN rstrip(l1) ELSE l1]

\* convert_srt_timestamp with the line passed through as it is.
convert_srt_timestamp_asIs(srt_timestamp) == srt_timestamp

\* convert_srt_timestamp (line 22): srt_timestamp.replace(',', '.')
convert_srt_timestamp(srt_timestamp) ==
    [k \in 1..Len(srt_timestamp) |-> IF srt_timestamp[k] = "," THEN "." ELSE srt_timestamp[k]]

\* Lines 54-80 for one block: what it adds to vtt_content.
block_cue(b) ==
    LET lines == block_lines(b)
        hits == {k \in 1..Len(lines) : \E n \in 1..Len(lines[k]) : lines[k][n] = "-->"}
    IN  IF Len(lines) < 2 \/ hits = {}
        THEN <<>>
        ELSE LET i == CHOOSE k \in hits : \A h \in hits : k <= h
                 subtitle_text == SubSeq(lines, i + 1, Len(lines))
             IN  <<convert_srt_timestamp(lines[i])>>
                     \o (IF subtitle_text = <<>> THEN << <<>> >> ELSE subtitle_text)
                     \o << <<>> >>

RECURSIVE cues_of(_)
cues_of(bs) == IF bs = <<>> THEN <<>> ELSE block_cue(Head(bs)) \o cues_of(Tail(bs))

\* The .srt file holds any text of at most MaxLines lines.
SrtInit ==
    /\ HlsIdle /\ ToolsIdle /\ PathsIdle
    /\ srt_content \in UNION {[1..n -> SrtLines] : n \in 0..MaxLines}
    /\ vtt_content = <<>>
    /\ spc = "read"

\* convert_srt_to_vtt, lines 36-85, the .vtt file not being there yet.
ConvertSrt ==
    /\ spc = "read"
    /\ vtt_content' = << <<"WEBVTT">>, <<>> >> \o cues_of(split_blocks(srt_content, <<>>, <<>>))
    /\ spc' = "written"
    /\ UNCHANGED <<hlsVars, toolVars, pathVars, srt_content>>

SrtNext == ConvertSrt

SpecSrt == SrtInit /\ [][SrtNext]_vars

\* ================================================================ claims
BatchRan == mpc = "exited" /\ scanIdx = nFiles + 1 /\ to_process # <<>> /\ ~dry_run

\* C1: with an absolute timeout T > 0 the encoder process is killed within
\* T minutes plus one polling interval of its start (and the call returns a
\* timeout outcome): no process is still running later than that.
C1_AbsoluteTimeout ==
    \A i \in Items :
        (timeout_minutes > 0 /\ Alive(i))
            => now - start_time[i] <= timeout_seconds + PollTicks

\* C2: with a stall timeout S > 0 a process that stays alive without
\* progress output for longer than S is terminated, whatever the absolute
\* timeout: no running process has been silent for more than S plus one
\* polling interval.
C2_StallTimeout ==
    \A i \in Items :
        Alive(i) => now - lastOutput[i] <= StallTicks + PollTicks

\* C3: is_hls_complete returns True exactly when playlist.m3u8 exists, has
\* the #EXT-X-ENDLIST marker and the source is not newer than the playlist,
\* and it returns False (never raises) on any error while checking.
C3_CompletionChecker ==
    \A i \in Items : i <= nFiles =>
        /\ is_hls_complete(i) \in {"true", "false"}
        /\ is_hls_complete(i) = "true"
             <=> (playlist[i] = "complete" /\ srcMtime[i] <= plMtime[i])

\* C4: after generate_hls returned a generated-success result for a source
\* that has not been modified since the encoder completed the playlist,
\* is_hls_complete holds for it, and a following run without --force marks
\* it [DONE], keeps it out of to_process and starts no encoder for it.
C4_Idempotence ==
    \A i \in Items :
        /\ (pc[i] = "returned" /\ result[i] = "generated" /\ ~touched[i])
              => is_hls_complete(i) = "true"
        /\ (prevGenerated[i] /\ ~force)
              => /\ is_hls_complete(i) = "true"
                 /\ status[i] \in {"unscanned", "DONE"}
                 /\ ~InBatch(i) /\ calls[i] = 0 /\ launches[i] = 0 /\ proc[i] = "none"

C4_Witness ==
    /\ run = 2 /\ ~force /\ mpc = "exited"
    /\ prevGenerated[1] /\ status[1] = "DONE"

\* C5: whenever generate_hls returns a non-success result the output
\* directory is empty or absent, is_hls_complete is False for the item and no
\* encoder process is still running for it.
C5_FailureCleanup ==
    \A i \in Items :
        (pc[i] = "returned" /\ Failure(result[i]))
            => /\ ~segs[i] /\ playlist[i] = "none"
               /\ is_hls_complete(i) = "false"
               /\ ~Alive(i)

\* C6: no exception escapes generate_hls, so neither batch loop of main is
\* aborted by one.
C6_NoExceptionEscapes ==
    /\ \A i \in Items : result[i] # "raised"
    /\ mpc # "crashing"

\* C7: in a run with --parallel N > 1 that processed its batch, exactly
\* M = len(to_process) outcomes are recorded, each the outcome of that item's
\* own call, and success_count + fail_count = M with success_count the number
\* of successful calls.
C7_ConcurrentBookkeeping ==
    (parallel > 1 /\ BatchRan) =>
        /\ Cardinality({i \in Items : counted[i] # "none"}) = Len(to_process)
        /\ \A i \in Items : InBatch(i) => (counted[i] = "ok" <=> Success(result[i]))
        /\ \A i \in Items : InBatch(i) => (counted[i] = "fail" <=> Failure(result[i]))
        /\ success_count + fail_count = Len(to_process)
        /\ success_count = Cardinality({i \in Items : InBatch(i) /\ Success(result[i])})

\* C8: a tool that processed a batch exits with status zero only if every
\* processed item succeeded, and with a non-zero status if an item failed.
C8_ExitStatus ==
    /\ (mpc = "exited" /\ \E i \in Items : counted[i] = "fail") => exitCode # 0
    /\ (tpc = "exited" /\ \E i \in Items : tOutcome[i] = "fail") => tExit # 0

\* C9: in a run that processed its batch every pending item was handed to
\* the per-item operation exactly once, whatever happened to the other items.
C9_BatchContinues ==
    /\ \A i \in Items : calls[i] <= 1 /\ tAttempts[i] <= 1
    /\ BatchRan => \A i \in Items : InBatch(i) => calls[i] = 1
    /\ (tpc = "exited" /\ tIdx # 0) => \A i \in Items : tOutcome[i] # "skip" => tAttempts[i] = 1

\* C10: when the external toolkit is not installed the run aborts before any
\* work item is processed and before any output directory is created, and no
\* per-item failure is reported.
C10_MissingDependencyFatal ==
    /\ ~ffmpegInstalled =>
          \A i \in Items : calls[i] = 0 /\ result[i] = "none" /\ counted[i] = "none"
    /\ ~tDep => \A i \in Items : tAttempts[i] = 0 /\ tOutcome[i] = "none"

\* C11: two distinct source files selected in the same batch never map to the
\* same output artifact path.
C11_OwnOutputPath ==
    (ppc = "mapped" /\ selA /\ selB /\ srcA # srcB) => outA # outB

\* C12: a returned call of generate_hls reports success exactly when it
\* skipped a complete, fresh output without --force (no process started, no
\* file touched) or the process it started exited with status zero and no
\* timeout was triggered; a non-zero status or a timeout always gives failure.
C12_SuccessCondition ==
    /\ [](\A i \in Items : (pc[i] = "returned" /\ result[i] # "raised") =>
            /\ Success(result[i]) <=>
                 \/ ~force /\ launches[i] = 0 /\ proc[i] = "none" /\ is_hls_complete(i) = "true"
                 \/ proc[i] = "exited0" /\ ~timed_out[i]
            /\ (proc[i] \in {"exited1", "killed"} \/ timed_out[i]) => ~Success(result[i]))
    /\ [][\A i \in Items : (result'[i] = "skipped" /\ result[i] # "skipped")
            => UNCHANGED <<fsVars, proc, launches>>]_vars

C12_Witness == pc[1] = "returned" /\ result[1] = "generated" /\ proc[1] = "exited0"

C12_SkipReached == pc[1] = "returned" /\ result[1] = "skipped"

\* C13: in every tool an existing output makes the scan skip its source only
\* if the output is not older than the source; a source modified after its
\* output was produced is selected for reprocessing.
C13_FreshnessEverywhere ==
    \A i \in Items : tOutcome[i] = "skip" => (tOut[i] /\ ~tStale[i])

\* C14: a run of the HLS generator with --dry-run calls generate_hls for no
\* file, creates no output directory and starts no encoder; in the other
\* tools no per-item operation runs and no file is created, modified or
\* removed unless the operator answered the prompt with y or Y.
C14_DryRunAndConfirmGate ==
    [][ /\ dry_run => UNCHANGED <<calls, launches, proc, pc, fsVars>>
        /\ (tAttempts' # tAttempts \/ tOut' # tOut \/ mVideo' # mVideo \/ mTemp' # mTemp)
              => tAnswer \in {"y", "Y"} ]_vars

C14_Witness ==
    /\ tpc = "exited" /\ tAnswer \in {"n", ""}
    /\ \E i \in Items : tOutcome[i] = "pending"

C14_DryRunReached == dry_run /\ mpc = "exited" /\ to_process # <<>> /\ scanIdx = nFiles + 1

\* C15: with pool size 1 generate_hls is called on the pending items one at a
\* time in input (sorted scan) order: a call begins only after the calls of
\* all earlier pending items have returned and been counted, and outcomes are
\* counted in that order.
C15_SequentialOrder ==
    parallel = 1 =>
        /\ Cardinality({i \in Items : Active(i)}) <= 1
        /\ \A k \in 1..Len(to_process) : \A l \in 1..Len(to_process) :
              k < l => to_process[k] < to_process[l]
        /\ \A i \in Items : \A j \in Items :
              (InBatch(i) /\ InBatch(j) /\ i < j) =>
                  /\ calls[j] > 0 => (pc[i] = "returned" /\ counted[i] # "none")
                  /\ counted[j] # "none" => counted[i] # "none"

C15_Witness ==
    /\ parallel = 1 /\ Len(to_process) = 2
    /\ counted[1] # "none" /\ Active(2)

\* C19: the in-place moov fix never loses an original: at every video_path
\* there is a file, either the original or (only after ffmpeg exited with
\* zero) the remuxed one, and a failed item leaves its original in place and
\* no temporary file.
C19_OriginalNeverLost ==
    \A i \in Items :
        /\ mVideo[i] \in {"orig", "fixed"}
        /\ mVideo[i] = "fixed" => mRun[i] = "ran0"
        /\ tOutcome[i] = "fail" => (mVideo[i] = "orig" /\ mTemp[i] = "none")

\* C17: a scanned file whose relative path contains a --skip pattern as a
\* case-insensitive substring is marked SKIP, is never pending and never has
\* generate_hls called on it, whatever --force and the state of its output;
\* a file matching no pattern is classified exactly as without a skip list.
C17_Matches(i) ==
    \E n \in 1..Len(skip) : \E k \in 0..Len(relPath[i]) :
        /\ k + Len(skip[n]) <= Len(relPath[i])
        /\ \A j \in 1..Len(skip[n]) :
              str_lower(<<relPath[i][k + j]>>) = str_lower(<<skip[n][j]>>)

C17_SkipPatterns ==
    /\ [](\A i \in Items : (i <= nFiles /\ C17_Matches(i)) =>
            /\ status[i] \in {"unscanned", "SKIP"}
            /\ ~InBatch(i)
            /\ calls[i] = 0 /\ launches[i] = 0 /\ pc[i] = "queued")
    /\ [](\A i \in Items : status[i] = "SKIP" => C17_Matches(i))
    /\ [][\A i \in Items : (status[i] = "unscanned" /\ status'[i] # "unscanned" /\ ~C17_Matches(i)) =>
            IF (~force) /\ is_hls_complete(i) = "true"
            THEN status'[i] = "DONE" /\ to_process' = to_process
            ELSE status'[i] = "PENDING" /\ to_process' = Append(to_process, i)]_vars

C17_Witness ==
    /\ force /\ mpc = "exited" /\ nFiles = 2
    /\ status[1] = "SKIP" /\ playlist[1] = "none"
    /\ status[2] = "PENDING" /\ calls[2] = 1 /\ relPath[2] = <<"x", "e">>

\* C18: the supervisor never deadlocks with the encoder: generate_hls is never
\* left waiting for progress output of a process that is itself suspended in
\* a write to a pipe nobody reads.
C18_NoPipeDeadlock ==
    \A i \in Items : ~(pc[i] = "read" /\ outBuf[i] = 0 /\ proc[i] = "blocked")

\* C16: the written VTT text is the WEBVTT header, a blank line, and then in
\* input order one cue for every blank-line-separated block of the SRT text
\* that has at least two lines and a line containing "-->": that line with
\* every comma replaced by a period, the block's lines after it, and a blank
\* line; other blocks contribute nothing.  In C16_Expected the lines of a
\* block are those of the input as they are; in C16_ExpectedStripped the
\* white space at the very start and the very end of the block is removed.
C16_BlockEnd(a) ==
    CHOOSE b \in a..Len(srt_content) :
        /\ \A k \in a..b : ~IsBlank(srt_content[k])
        /\ b = Len(srt_content) \/ IsBlank(srt_content[b + 1])

C16_Line(a, k, stripped) ==
    LET l == srt_content[k]
        l1 == IF stripped /\ k = a THEN lstrip(l) ELSE l
    IN  IF stripped /\ k = C16_BlockEnd(a) THEN rstrip(l1) ELSE l1

C16_Cue(a, stripped) ==
    LET b == C16_BlockEnd(a)
        arrows == {k \in a..b : "-->" \in Range(srt_content[k])}
    IN  IF b = a \/ arrows = {}
        THEN <<>>
        ELSE LET t == CHOOSE k \in arrows : \A h \in arrows : k <= h
                 ts == C16_Line(a, t, stripped)
             IN  << [n \in 1..Len(ts) |-> IF ts[n] = "," THEN "." ELSE ts[n]] >>
                    \o (IF t = b THEN << <<>> >> ELSE [k \in 1..(b - t) |-> C16_Line(a, t + k, stripped)])
                    \o << <<>> >>

RECURSIVE C16_From(_, _)
C16_From(a, stripped) ==
    IF a > Len(srt_content) THEN <<>>
    ELSE IF IsBlank(srt_content[a]) THEN C16_From(a + 1, stripped)
    ELSE C16_Cue(a, stripped) \o C16_From(C16_BlockEnd(a) + 1, stripped)

C16_Expected == spc = "written" => vtt_content = << <<"WEBVTT">>, <<>> >> \o C16_From(1, FALSE)

C16_ExpectedStripped == spc = "written" => vtt_content = << <<"WEBVTT">>, <<>> >> \o C16_From(1, TRUE)

C16_Witness ==
    /\ spc = "written"
    /\ srt_content = << <<"t">>, <<",", "-->", ",">>, <<"t", ",", " ">>, <<>>, <<"t">> >>
    /\ vtt_content = << <<"WEBVTT">>, <<>>, <<".", "-->", ".">>, <<"t", ",">>, <<>> >>

====
